---------------------------- MODULE Spec2Model ----------------------------
(***************************************************************************)
(* A model of the fuzzy path matcher of zed/src/worktree/fuzzy.rs:         *)
(* match_paths, match_single_tree_paths, find_last_positions, score_match  *)
(* and recursive_score_match.                                              *)
(*                                                                         *)
(* Characters are one-character strings.  Columns, query indices and file  *)
(* indices are 0-based as in the source; a sequence s is read at column j  *)
(* as s[j + 1].                                                            *)
(*                                                                         *)
(* Scores.  Every f64 the scorer computes is 0 or a product of powers of   *)
(* small primes (the character scores are multiples of 1/20 between 4/20   *)
(* and 20/20, the case penalty is 1/1000, the memo sentinel is 1e-18, the  *)
(* depth divisor and the query length are small naturals).  A score is     *)
(* therefore modelled exactly: Zero, or the vector of the exponents of the *)
(* primes of Primes.  Products add vectors, comparisons compare the two    *)
(* cross products.  The rounding of f64 is not modelled.                   *)
(***************************************************************************)
EXTENDS Integers, Sequences, FiniteSets, TLC

(***************************************************************************)
(* Characters                                                              *)
(***************************************************************************)
LowerChars ==
    << "a", "b", "c", "d", "e", "f", "g", "h", "i", "j", "k", "l", "m",
       "n", "o", "p", "q", "r", "s", "t", "u", "v", "w", "x", "y", "z" >>

UpperChars ==
    << "A", "B", "C", "D", "E", "F", "G", "H", "I", "J", "K", "L", "M",
       "N", "O", "P", "Q", "R", "S", "T", "U", "V", "W", "X", "Y", "Z" >>

DigitChars == << "0", "1", "2", "3", "4", "5", "6", "7", "8", "9" >>

Range(s) == { s[i] : i \in 1..Len(s) }

is_lowercase(c) == c \in Range(LowerChars)

is_uppercase(c) == c \in Range(UpperChars)

is_numeric(c) == c \in Range(DigitChars)

\* char::to_ascii_lowercase (and, on the ASCII characters modelled here,
\* str::to_lowercase character by character)
to_ascii_lowercase(c) ==
    IF is_uppercase(c)
    THEN LowerChars[CHOOSE i \in 1..Len(UpperChars) : UpperChars[i] = c]
    ELSE c

to_lowercase(s) == [i \in 1..Len(s) |-> to_ascii_lowercase(s[i])]

(***************************************************************************)
(* Scores: exact arithmetic on products of prime powers                    *)
(***************************************************************************)
Primes == << 2, 3, 5, 7, 11, 13, 17, 19, 23 >>

NP == Len(Primes)

Zero == << >>

One == [i \in 1..NP |-> 0]

RECURSIVE FactorAt(_, _)
\* the exponent of prime p in n >= 1
FactorAt(n, p) == IF n % p = 0 THEN 1 + FactorAt(n \div p, p) ELSE 0

RECURSIVE Pow(_, _)
Pow(b, e) == IF e = 0 THEN 1 ELSE b * Pow(b, e - 1)

RECURSIVE Product(_, _)
\* the product of Primes[i]^v[i] for i in 1..k
Product(v, k) == IF k = 0 THEN 1 ELSE Pow(Primes[k], v[k]) * Product(v, k - 1)

\* the natural n >= 1 as a score; n must factor over Primes
FromNat(n) ==
    LET v == [i \in 1..NP |-> FactorAt(n, Primes[i])]
    IN  IF Product(v, NP) = n THEN v ELSE CHOOSE x \in {} : TRUE

Mul(x, y) ==
    IF x = Zero \/ y = Zero THEN Zero ELSE [i \in 1..NP |-> x[i] + y[i]]

Div(x, y) == [i \in 1..NP |-> x[i] - y[i]]

\* n / d for naturals n, d >= 1
Ratio(n, d) == Div(FromNat(n), FromNat(d))

\* the largest product a comparison may form
CompareCap == Pow(2, 30)

RECURSIVE CapProduct(_, _)
\* min(CompareCap, product of Primes[i]^v[i] for i in 1..k), without overflow
CapProduct(v, k) ==
    IF k = 0 THEN 1
    ELSE LET rest == CapProduct(v, k - 1)
             RECURSIVE Times(_, _)
             Times(acc, e) ==
                 IF e = 0 THEN acc
                 ELSE IF acc > CompareCap \div Primes[k] THEN CompareCap
                 ELSE Times(acc * Primes[k], e - 1)
         IN  Times(rest, v[k])

\* x < y
Less(x, y) ==
    IF y = Zero THEN FALSE
    ELSE IF x = Zero THEN TRUE
    ELSE LET up == [i \in 1..NP |-> IF x[i] > y[i] THEN x[i] - y[i] ELSE 0]
             dn == [i \in 1..NP |-> IF y[i] > x[i] THEN y[i] - x[i] ELSE 0]
             l  == CapProduct(up, NP)
             r  == CapProduct(dn, NP)
         IN  IF l = CompareCap /\ r = CompareCap
             THEN CHOOSE b \in {} : TRUE
             ELSE l < r

Greater(x, y) == Less(y, x)

Leq(x, y) == ~Less(y, x)

Positive(x) == x # Zero

BASE_DISTANCE_PENALTY == Ratio(6, 10)

ADDITIONAL_DISTANCE_PENALTY == Ratio(5, 100)

MIN_DISTANCE_PENALTY == Ratio(2, 10)

\* MIN_DISTANCE_PENALTY.max(BASE_DISTANCE_PENALTY
\*                          - gap as f64 * ADDITIONAL_DISTANCE_PENALTY)
\* in twentieths: max(4, 12 - gap) / 20
DistancePenalty(gap) ==
    LET pen == IF gap >= 12 THEN Zero ELSE Ratio(12 - gap, 20)
    IN  IF Less(pen, MIN_DISTANCE_PENALTY) THEN MIN_DISTANCE_PENALTY ELSE pen

\* the case-mismatch factor 0.001
CasePenalty == Ratio(1, 1000)

\* the memo sentinel 1e-18
Sentinel == [i \in 1..NP |-> IF Primes[i] \in {2, 5} THEN 0 - 18 ELSE 0]

(***************************************************************************)
(* find_last_positions                                                     *)
(***************************************************************************)
\* Option<f64>::None in score_matrix
None == << 0 - 1 >>

\* the search from the front: the least 0-based index below `end` holding c,
\* or -1
position(s, end, c) ==
    LET hits == { k \in 0..(end - 1) : s[k + 1] = c }
    IN  IF hits = {} THEN 0 - 1 ELSE CHOOSE k \in hits : \A h \in hits : k <= h

\* slice::Iter::rposition on the first `end` items of s: the greatest
\* 0-based index below `end` holding c, or -1 (the iterator is then used up)
rposition(s, end, c) ==
    LET hits == { k \in 0..(end - 1) : s[k + 1] = c }
    IN  IF hits = {} THEN 0 - 1 ELSE CHOOSE k \in hits : \A h \in hits : h <= k

RECURSIVE LastPositionsLoop(_, _, _, _, _, _, _)
\* the iterations i, i-1, ..., 0 of `for (i, char) in query.iter().enumerate().rev()`;
\* path_end and prefix_end are what is left of the two iterators
LastPositionsLoop(last_positions, prefix, path, query, i, path_end, prefix_end) ==
    IF i < 0 THEN [ok |-> TRUE, last_positions |-> last_positions]
    ELSE LET j == rposition(path, path_end, query[i + 1])
             k == rposition(prefix, prefix_end, query[i + 1])
         IN  IF j >= 0
             THEN LastPositionsLoop(
                      [last_positions EXCEPT ![i + 1] = j + Len(prefix)],
                      prefix, path, query, i - 1, j, prefix_end)
             ELSE IF k >= 0
             THEN LastPositionsLoop(
                      [last_positions EXCEPT ![i + 1] = k],
                      prefix, path, query, i - 1, 0, k)
             ELSE [ok |-> FALSE, last_positions |-> last_positions]

\* [ok |-> the returned bool, last_positions |-> the vector as it is left]
find_last_positions(last_positions, prefix, path, query) ==
    LastPositionsLoop(last_positions, prefix, path, query,
                      Len(query) - 1, Len(path), Len(prefix))

(***************************************************************************)
(* recursive_score_match and score_match                                   *)
(*                                                                         *)
(* c is the record of the arguments that do not change in the recursion:   *)
(* query, query_cased, path, path_cased, prefix, lowercase_prefix,         *)
(* smart_case, last_positions, min_score; and memo, TRUE in the program,   *)
(* FALSE for the same recursion with the memo lookup left out.             *)
(***************************************************************************)
PathLen(c) == Len(c.prefix) + Len(c.path)

\* the lowercase character of column j
PathCharAt(c, j) ==
    IF j < Len(c.prefix) THEN c.lowercase_prefix[j + 1]
    ELSE c.path_cased[j - Len(c.prefix) + 1]

\* the character of column j in its own case
CurrAt(c, j) ==
    IF j < Len(c.prefix) THEN c.prefix[j + 1]
    ELSE c.path[j - Len(c.prefix) + 1]

IsPathSep(path_char) == path_char = "/" \/ path_char = "\\"

\* the condition read as is_path_sep && (query_char == '_' || query_char == '\\')
ColumnAcceptedAtSeparatorOnly(query_char, path_char) ==
    \/ query_char = path_char
    \/ (IsPathSep(path_char) /\ (query_char = "_" \/ query_char = "\\"))

\* the condition under which column j is matched to the query character
ColumnAccepted(query_char, path_char) ==
    \/ query_char = path_char
    \/ (IsPathSep(path_char) /\ query_char = "_")
    \/ query_char = "\\"

\* char_score with no bonus for a capital after a lowercase letter
BoundaryScoreNoCamelCase(c, query_idx, path_idx, j) ==
    IF j > path_idx
    THEN LET last == CurrAt(c, j - 1)
         IN  IF last = "/" THEN Ratio(9, 10)
             ELSE IF last = "-" \/ last = "_" \/ last = " " \/ is_numeric(last)
             THEN Ratio(8, 10)
             ELSE IF last = "." THEN Ratio(7, 10)
             ELSE IF query_idx = 0 THEN BASE_DISTANCE_PENALTY
             ELSE DistancePenalty(j - path_idx - 1)
    ELSE One

\* char_score with no bonus for the character after a '/'
BoundaryScoreNoSlash(c, query_idx, path_idx, j) ==
    IF j > path_idx
    THEN LET last == CurrAt(c, j - 1)
             curr == CurrAt(c, j)
         IN  IF last = "-" \/ last = "_" \/ last = " " \/ is_numeric(last)
             THEN Ratio(8, 10)
             ELSE IF is_lowercase(last) /\ is_uppercase(curr) THEN Ratio(8, 10)
             ELSE IF last = "." THEN Ratio(7, 10)
             ELSE IF query_idx = 0 THEN BASE_DISTANCE_PENALTY
             ELSE DistancePenalty(j - path_idx - 1)
    ELSE One

\* char_score before the case penalty
BoundaryScore(c, query_idx, path_idx, j) ==
    IF j > path_idx
    THEN LET last == CurrAt(c, j - 1)
             curr == CurrAt(c, j)
         IN  IF last = "/" THEN Ratio(9, 10)
             ELSE IF last = "-" \/ last = "_" \/ last = " " \/ is_numeric(last)
             THEN Ratio(8, 10)
             ELSE IF is_lowercase(last) /\ is_uppercase(curr) THEN Ratio(8, 10)
             ELSE IF last = "." THEN Ratio(7, 10)
             ELSE IF query_idx = 0 THEN BASE_DISTANCE_PENALTY
             ELSE DistancePenalty(j - path_idx - 1)
    ELSE One

\* char_score after the case penalty
CharScore(c, query_idx, path_idx, j) ==
    LET char_score == BoundaryScore(c, query_idx, path_idx, j)
        curr == CurrAt(c, j)
    IN  IF (c.smart_case \/ curr = "/") /\ c.query[query_idx + 1] # curr
        THEN Mul(char_score, CasePenalty)
        ELSE char_score

\* multiplier: char_score, scaled by the depth of the match for the first
\* query character
Multiplier(c, query_idx, path_idx, j, last_slash) ==
    IF query_idx = 0
    THEN Div(CharScore(c, query_idx, path_idx, j),
             FromNat(PathLen(c) - last_slash))
    ELSE CharScore(c, query_idx, path_idx, j)

\* whether the column is skipped because it cannot pass min_score
Pruned(c, next_score) == Positive(c.min_score) /\ Less(next_score, c.min_score)

RECURSIVE recursive_score_match(_, _, _, _, _, _)
RECURSIVE ColumnLoop(_, _, _, _, _, _)
\* column j once the recursive call has returned r: the comparison with
\* the best score so far, and then the iterations j+1, ..., limit
ColumnScored(c, query_idx, path_idx, cur_score, j, st, multiplier, r) ==
    LET new_score == Mul(r.score, multiplier)
        after     == [st EXCEPT !.score_matrix = r.score_matrix,
                                !.best_position_matrix = r.best_position_matrix,
                                !.err = r.err]
        better    == [after EXCEPT !.score = new_score, !.best_position = j]
    IN  IF r.err THEN after
        ELSE IF Greater(new_score, st.score)
        THEN IF new_score = One THEN better
             ELSE ColumnLoop(c, query_idx, path_idx, cur_score, j + 1, better)
        ELSE ColumnLoop(c, query_idx, path_idx, cur_score, j + 1, after)

\* an accepted column j: the pruning by min_score, or the recursive call
ColumnMatched(c, query_idx, path_idx, cur_score, j, st) ==
    LET multiplier == Multiplier(c, query_idx, path_idx, j, st.last_slash)
        next_score == IF Positive(c.min_score)
                      THEN Mul(cur_score, multiplier) ELSE One
    IN  IF Pruned(c, next_score)
        THEN ColumnLoop(c, query_idx, path_idx, cur_score, j + 1,
                        [st EXCEPT !.score = IF st.score = Zero
                                             THEN Sentinel ELSE st.score])
        ELSE ColumnScored(c, query_idx, path_idx, cur_score, j, st, multiplier,
                 recursive_score_match(c, st.score_matrix,
                     st.best_position_matrix, query_idx + 1, j + 1, next_score))

\* the iterations j, j+1, ..., limit of `for j in path_idx..=limit`;
\* st holds score, best_position, last_slash, the two matrices and err
ColumnLoop(c, query_idx, path_idx, cur_score, j, st) ==
    IF j > c.last_positions[query_idx + 1] \/ st.err THEN st
    ELSE IF ColumnAccepted(c.query_cased[query_idx + 1], PathCharAt(c, j))
    THEN ColumnMatched(c, query_idx, path_idx, cur_score, j,
             [st EXCEPT !.last_slash =
                 IF query_idx = 0 /\ IsPathSep(PathCharAt(c, j))
                 THEN j ELSE st.last_slash])
    ELSE ColumnLoop(c, query_idx, path_idx, cur_score, j + 1,
             [st EXCEPT !.last_slash =
                 IF query_idx = 0 /\ IsPathSep(PathCharAt(c, j))
                 THEN j ELSE st.last_slash])

\* the end of recursive_score_match: the two matrices take the result
StoreResult(st, idx) ==
    [score |-> st.score,
     score_matrix |-> [st.score_matrix EXCEPT ![idx + 1] = st.score],
     best_position_matrix |->
         IF st.best_position # 0
         THEN [st.best_position_matrix EXCEPT ![idx + 1] = st.best_position]
         ELSE st.best_position_matrix,
     err |-> st.err]

\* [score, score_matrix, best_position_matrix, err]; err is the panic of an
\* index out of range
recursive_score_match(c, score_matrix, best_position_matrix, query_idx, path_idx, cur_score) ==
    IF query_idx = Len(c.query)
    THEN [score |-> One, score_matrix |-> score_matrix,
          best_position_matrix |-> best_position_matrix, err |-> FALSE]
    ELSE IF query_idx * PathLen(c) + path_idx >= Len(score_matrix)
    THEN [score |-> Zero, score_matrix |-> score_matrix,
          best_position_matrix |-> best_position_matrix, err |-> TRUE]
    ELSE IF c.memo /\ score_matrix[query_idx * PathLen(c) + path_idx + 1] # None
    THEN [score |-> score_matrix[query_idx * PathLen(c) + path_idx + 1],
          score_matrix |-> score_matrix,
          best_position_matrix |-> best_position_matrix, err |-> FALSE]
    ELSE StoreResult(
             ColumnLoop(c, query_idx, path_idx, cur_score, path_idx,
                 [score |-> Zero, best_position |-> 0, last_slash |-> 0,
                  score_matrix |-> score_matrix,
                  best_position_matrix |-> best_position_matrix,
                  err |-> FALSE]),
             query_idx * PathLen(c) + path_idx)

RECURSIVE PositionsLoopFromZero(_, _, _, _, _)
\* the loop that reads every row at column 0: cur_start is never advanced
PositionsLoopFromZero(c, best_position_matrix, match_positions, i, cur_start) ==
    IF i >= Len(c.query) THEN [match_positions |-> match_positions, err |-> FALSE]
    ELSE LET idx == i * PathLen(c) + cur_start
         IN  IF idx >= Len(best_position_matrix) \/ i >= Len(match_positions)
             THEN [match_positions |-> match_positions, err |-> TRUE]
             ELSE PositionsLoopFromZero(c, best_position_matrix,
                      [match_positions EXCEPT ![i + 1] = best_position_matrix[idx + 1]],
                      i + 1, cur_start)

RECURSIVE PositionsLoop(_, _, _, _, _)
\* the iterations i, i+1, ... of `for i in 0..query.len()` of score_match
PositionsLoop(c, best_position_matrix, match_positions, i, cur_start) ==
    IF i >= Len(c.query) THEN [match_positions |-> match_positions, err |-> FALSE]
    ELSE LET idx == i * PathLen(c) + cur_start
         IN  IF idx >= Len(best_position_matrix) \/ i >= Len(match_positions)
             THEN [match_positions |-> match_positions, err |-> TRUE]
             ELSE PositionsLoop(c, best_position_matrix,
                      [match_positions EXCEPT ![i + 1] = best_position_matrix[idx + 1]],
                      i + 1, best_position_matrix[idx + 1] + 1)

\* score_match once recursive_score_match has returned r
ScoreResult(c, match_positions, r, score) ==
    IF r.err \/ ~Positive(score)
    THEN [score |-> Zero, score_matrix |-> r.score_matrix,
          best_position_matrix |-> r.best_position_matrix,
          match_positions |-> match_positions, err |-> r.err]
    ELSE LET p == PositionsLoop(c, r.best_position_matrix, match_positions, 0, 0)
         IN  [score |-> score, score_matrix |-> r.score_matrix,
              best_position_matrix |-> r.best_position_matrix,
              match_positions |-> p.match_positions, err |-> p.err]

\* the score left unscaled by the length of the query
NoLengthScaling(q) == One

\* query.len() as f64
LenAsScore(q) == IF Len(q) = 0 THEN Zero ELSE FromNat(Len(q))

\* [score, score_matrix, best_position_matrix, match_positions, err]
score_match(c, score_matrix, best_position_matrix, match_positions) ==
    LET r == recursive_score_match(c, score_matrix, best_position_matrix,
                 0, 0, LenAsScore(c.query))
    IN  ScoreResult(c, match_positions, r, Mul(r.score, LenAsScore(c.query)))

(***************************************************************************)
(* CharBag and Snapshot (super::char_bag and super::Snapshot are not part  *)
(* of these sources: modelled from their description)                      *)
(***************************************************************************)
\* the characters a CharBag records: lowercase letters, digits and '-'
Recognized(ch) == is_lowercase(ch) \/ is_numeric(ch) \/ ch = "-"

\* CharBag::from(chars)
CharBagFrom(chars) == { ch \in Range(chars) : Recognized(ch) }

\* a test that lets every candidate through
is_superset_always(bag, other) == TRUE

\* self.is_superset(other)
is_superset(bag, other) == other \subseteq bag

\* a file entry: its path, its EntryKind::File(char_bag) and is_ignored
FileEntry(path, is_ignored) ==
    [path |-> path, char_bag |-> CharBagFrom(to_lowercase(path)),
     is_ignored |-> is_ignored]

\* snapshot.files(0) when include_ignored, else snapshot.visible_files(0)
Files(snapshot, ignored_too) ==
    IF ignored_too THEN snapshot.entries
    ELSE SelectSeq(snapshot.entries, LAMBDA e : ~e.is_ignored)

\* snapshot.file_count() when include_ignored, else visible_file_count()
FileCount(snapshot, ignored_too) == Len(Files(snapshot, ignored_too))

(***************************************************************************)
(* BinaryHeap<Reverse<PathMatch>>: data is the heap's vector               *)
(***************************************************************************)
RECURSIVE sift_up(_, _)
\* the hole at 0-based pos moves up while its parent has a greater score
sift_up(data, pos) ==
    IF pos = 0 THEN data
    ELSE LET parent == (pos - 1) \div 2
         IN  IF Leq(data[parent + 1].score, data[pos + 1].score) THEN data
             ELSE sift_up([data EXCEPT ![parent + 1] = data[pos + 1],
                                       ![pos + 1] = data[parent + 1]], parent)

\* results.push(Reverse(item))
HeapPush(data, item) == sift_up(Append(data, item), Len(data))

\* results.peek().unwrap().0
HeapPeek(data) == data[1]

(***************************************************************************)
(* One iteration of `for path_entry in path_entries` of                    *)
(* match_single_tree_paths.  loc is the worker's local state: results,     *)
(* min_score, match_positions, last_positions, score_matrix,               *)
(* best_position_matrix.  The answer is loc as the iteration leaves it and *)
(* outcome: "skipped" (the CharBag test), "cancelled" (the break),         *)
(* "rejected" (find_last_positions), "scored", or "panicked".              *)
(***************************************************************************)
Prefix(snapshot, with_root) == IF with_root THEN snapshot.root_name ELSE << >>

ScoreContext(snapshot, with_root, path_entry, q, smart, last_pos, min, memo) ==
    [query            |-> q,
     query_cased      |-> to_lowercase(q),
     path             |-> path_entry.path,
     path_cased       |-> to_lowercase(path_entry.path),
     prefix           |-> Prefix(snapshot, with_root),
     lowercase_prefix |-> to_lowercase(Prefix(snapshot, with_root)),
     smart_case       |-> smart,
     last_positions   |-> last_pos,
     min_score        |-> min,
     memo             |-> memo]

\* min_score follows the heap as soon as it holds k items or more
PushResultAtLeast(loc, item, k) ==
    LET pushed == HeapPush(loc.results, item)
    IN  [loc EXCEPT !.results = pushed,
                    !.min_score = IF Len(pushed) >= k
                                  THEN HeapPeek(pushed).score
                                  ELSE loc.min_score]

\* min_score takes the score of every match pushed
PushResultLatest(loc, item, k) ==
    [loc EXCEPT !.results = HeapPush(loc.results, item),
                !.min_score = item.score]

\* results.push(..) and the update of min_score
PushResult(loc, item, k) ==
    LET pushed == HeapPush(loc.results, item)
    IN  [loc EXCEPT !.results = pushed,
                    !.min_score = IF Len(pushed) = k
                                  THEN HeapPeek(pushed).score
                                  ELSE loc.min_score]

\* the iteration once score_match has returned m
EntryScored(snapshot, path_entry, k, loc, m) ==
    IF m.err
    THEN [outcome |-> "panicked", score |-> Zero,
          loc |-> [loc EXCEPT !.score_matrix = m.score_matrix,
                              !.best_position_matrix = m.best_position_matrix,
                              !.match_positions = m.match_positions]]
    ELSE IF Positive(m.score)
    THEN [outcome |-> "scored", score |-> m.score,
          loc |-> PushResult(
                      [loc EXCEPT !.score_matrix = m.score_matrix,
                                  !.best_position_matrix = m.best_position_matrix,
                                  !.match_positions = m.match_positions],
                      [score |-> m.score, positions |-> m.match_positions,
                       tree_id |-> snapshot.id, path |-> path_entry.path],
                      k)]
    ELSE [outcome |-> "scored", score |-> Zero,
          loc |-> [loc EXCEPT !.score_matrix = m.score_matrix,
                              !.best_position_matrix = m.best_position_matrix,
                              !.match_positions = m.match_positions]]

\* the matrices resized one cell short
ClearedOneShort(matrix_len, value) == [i \in 1..(matrix_len - 1) |-> value]

\* score_matrix.clear(); score_matrix.resize(matrix_len, None), and the same
\* for best_position_matrix with 0
Cleared(matrix_len, value) == [i \in 1..matrix_len |-> value]

\* Vec::resize alone: the cells kept as the last call left them
Resized(matrix, matrix_len, value) ==
    [i \in 1..matrix_len |-> IF i <= Len(matrix) THEN matrix[i] ELSE value]

\* the iteration that resizes the two matrices without clearing them
EntryFoundNotCleared(snapshot, with_root, path_entry, q, smart, k, loc, found) ==
    IF ~found.ok
    THEN [outcome |-> "rejected", score |-> Zero,
          loc |-> [loc EXCEPT !.last_positions = found.last_positions]]
    ELSE EntryScored(snapshot, path_entry, k,
             [loc EXCEPT !.last_positions = found.last_positions],
             score_match(
                 ScoreContext(snapshot, with_root, path_entry, q, smart,
                              found.last_positions, loc.min_score, TRUE),
                 Resized(loc.score_matrix,
                         Len(q) * (Len(path_entry.path)
                                   + Len(Prefix(snapshot, with_root))), None),
                 Resized(loc.best_position_matrix,
                         Len(q) * (Len(path_entry.path)
                                   + Len(Prefix(snapshot, with_root))), 0),
                 loc.match_positions))

\* the iteration once find_last_positions has returned found
EntryFound(snapshot, with_root, path_entry, q, smart, k, loc, found) ==
    IF ~found.ok
    THEN [outcome |-> "rejected", score |-> Zero,
          loc |-> [loc EXCEPT !.last_positions = found.last_positions]]
    ELSE EntryScored(snapshot, path_entry, k,
             [loc EXCEPT !.last_positions = found.last_positions],
             score_match(
                 ScoreContext(snapshot, with_root, path_entry, q, smart,
                              found.last_positions, loc.min_score, TRUE),
                 Cleared(Len(q) * (Len(path_entry.path)
                                   + Len(Prefix(snapshot, with_root))), None),
                 Cleared(Len(q) * (Len(path_entry.path)
                                   + Len(Prefix(snapshot, with_root))), 0),
                 loc.match_positions))

\* the break that first pushes the path_entry it stopped at, unscored
match_entry_push_at_break(snapshot, with_root, path_entry, q, smart, k, cancelled, loc) ==
    IF ~is_superset(path_entry.char_bag, CharBagFrom(to_lowercase(q)))
    THEN [outcome |-> "skipped", score |-> Zero, loc |-> loc]
    ELSE IF cancelled
    THEN [outcome |-> "cancelled", score |-> Zero,
          loc |-> [loc EXCEPT !.results =
                      HeapPush(loc.results,
                          [score |-> One, positions |-> loc.match_positions,
                           tree_id |-> snapshot.id, path |-> path_entry.path])]]
    ELSE EntryFound(snapshot, with_root, path_entry, q, smart, k, loc,
             find_last_positions(loc.last_positions,
                 to_lowercase(Prefix(snapshot, with_root)),
                 to_lowercase(path_entry.path), to_lowercase(q)))

match_entry(snapshot, with_root, path_entry, q, smart, k, cancelled, loc) ==
    IF ~is_superset(path_entry.char_bag, CharBagFrom(to_lowercase(q)))
    THEN [outcome |-> "skipped", score |-> Zero, loc |-> loc]
    ELSE IF cancelled
    THEN [outcome |-> "cancelled", score |-> Zero, loc |-> loc]
    ELSE EntryFound(snapshot, with_root, path_entry, q, smart, k, loc,
             find_last_positions(loc.last_positions,
                 to_lowercase(Prefix(snapshot, with_root)),
                 to_lowercase(path_entry.path), to_lowercase(q)))

(***************************************************************************)
(* The inputs of a call of match_paths                                     *)
(***************************************************************************)
\* the most files of all snapshots together
MaxFiles == 2

\* the number of snapshots
MaxTrees == 2

\* the greatest max_results
MaxResults == 2

\* the greatest num_cpus::get()
MaxCpus == 2

\* the files the snapshots are cut from
FilePool ==
    << FileEntry(<< "a", "a", "x", "b", "b" >>, FALSE),
       FileEntry(<< "a", "A", "b", "/", "b" >>, FALSE),
       FileEntry(<< "x", "b", "b" >>, TRUE),
       FileEntry(<< "a", "b", "c", "d", "e", "x", "x", "x", "g", "h" >>, FALSE),
       FileEntry(<< "a", "b", "c", "d", "e", "A", "B", "C", "D", "E", "g", "h" >>,
                 FALSE) >>

\* the root names of the snapshots, in turn
RootPool == << << "a" >>, << "B", "/" >> >>

QueryPool ==
    { << >>,
      << "a", "B", "b" >>,
      << "_", "b" >>,
      << "A", "B", "C", "D", "E", "g", "H" >> }

\* item i (1-based, any i >= 1) of a pool read cyclically
Cyclic(pool, i) == pool[((i - 1) % Len(pool)) + 1]

RECURSIVE Compositions(_, _)
\* the sequences of k naturals of sum n
Compositions(n, k) ==
    IF k = 0 THEN (IF n = 0 THEN { << >> } ELSE {})
    ELSE UNION { { << first >> \o rest : rest \in Compositions(n - first, k - 1) }
                 : first \in 0..n }

RECURSIVE SumTo(_, _)
SumTo(sizes, k) == IF k = 0 THEN 0 ELSE sizes[k] + SumTo(sizes, k - 1)

\* the snapshots that hold, in turn, sizes[1], sizes[2], ... files of the
\* pool, from its item `offset` on
MakeSnapshots(offset, sizes) ==
    [t \in 1..Len(sizes) |->
        [id        |-> 10 + t,
         root_name |-> Cyclic(RootPool, t),
         entries   |-> [e \in 1..sizes[t] |->
                           Cyclic(FilePool, offset + SumTo(sizes, t - 1) + e - 1)]]]

Workloads ==
    { MakeSnapshots(offset, sizes) :
          offset \in 1..Len(FilePool),
          sizes \in UNION { Compositions(n, MaxTrees) : n \in 0..MaxFiles } }

(***************************************************************************)
(* State                                                                   *)
(***************************************************************************)
VARIABLES
    query,              \* the arguments of match_paths
    snapshots,
    include_root_name,
    include_ignored,
    smart_case,
    max_results,
    cpus,               \* num_cpus::get()
    cancel_flag,        \* the AtomicBool
    pc,                 \* "running": in pool.scoped; "returned"
    wpc,                \* per worker: "scan", "done", "panicked"
    tree,               \* per worker: the snapshot of the `for snapshot in trees` loop
    tree_start,         \* per worker
    next_entry,         \* per worker: the index in the snapshot of the next path_entry
    entry_end,          \* per worker: `end`
    worker,             \* per worker: results (segment_results[w]), min_score,
                        \* match_positions, last_positions, score_matrix,
                        \* best_position_matrix
    last,               \* per worker: what its last iteration did (history)
    results,            \* the returned Vec<PathMatch>
    index_alive,        \* a WorktreeIndex model exists (it owns _subscription
                        \* and _index_entries)
    updated_entries,    \* the unbounded channel of UpdatedEntries batches
    index_pc,           \* index_entries: "none", "spawned", "initial", "recv",
                        \* "pass", "ended"
    passes,             \* the indexing passes under way: 0 is the initial pass
    handled,            \* the passes that have finished, in order (history)
    sent,               \* how many UpdatedEntries events the worktree emitted
    logged              \* how many errors log_err has logged

\* the state of a WorktreeIndex
ivars ==
    << index_alive, updated_entries, index_pc, passes, handled, sent, logged >>

vars ==
    << query, snapshots, include_root_name, include_ignored, smart_case,
       max_results, cpus, cancel_flag, pc, wpc, tree, tree_start, next_entry,
       entry_end, worker, last, results, ivars >>

args ==
    << query, snapshots, include_root_name, include_ignored, smart_case,
       max_results, cpus >>

Workers == 0..(cpus - 1)

(***************************************************************************)
(* The partition of the files and the loop over the snapshots              *)
(***************************************************************************)
RECURSIVE SumFileCounts(_, _, _)
SumFileCounts(trees, ignored_too, k) ==
    IF k = 0 THEN 0
    ELSE FileCount(trees[k], ignored_too) + SumFileCounts(trees, ignored_too, k - 1)

path_count(trees, ignored_too) == SumFileCounts(trees, ignored_too, Len(trees))

\* path_count / cpus rounded down
segment_size_floor(trees, ignored_too, ncpus) ==
    path_count(trees, ignored_too) \div ncpus

segment_size(trees, ignored_too, ncpus) ==
    (path_count(trees, ignored_too) + ncpus - 1) \div ncpus

Max(a, b) == IF a > b THEN a ELSE b

Min(a, b) == IF a < b THEN a ELSE b

RECURSIVE SnapshotLoop(_, _, _, _, _, _)
\* `for snapshot in trees` from snapshot t on (t > Len(trees): none is left),
\* up to the next call of match_single_tree_paths or the end of the loop
SnapshotLoop(trees, ignored_too, segment_start, segment_end, t, start_of_tree) ==
    IF t > Len(trees)
    THEN [done |-> TRUE, tree |-> 0, tree_start |-> start_of_tree,
          start |-> 0, end |-> 0]
    ELSE LET tree_end == start_of_tree + FileCount(trees[t], ignored_too)
         IN  IF /\ start_of_tree < segment_end /\ segment_start < tree_end
                \* take(end - start) of no entry: the call has no iteration
                /\ Max(start_of_tree, segment_start) < Min(tree_end, segment_end)
             THEN [done |-> FALSE, tree |-> t, tree_start |-> start_of_tree,
                   start |-> Max(start_of_tree, segment_start) - start_of_tree,
                   end |-> Min(tree_end, segment_end) - start_of_tree]
             ELSE IF tree_end >= segment_end
             THEN [done |-> TRUE, tree |-> 0, tree_start |-> start_of_tree,
                   start |-> 0, end |-> 0]
             ELSE SnapshotLoop(trees, ignored_too, segment_start, segment_end,
                               t + 1, tree_end)

\* what follows the return of match_single_tree_paths for snapshot t
AfterTree(trees, ignored_too, segment_start, segment_end, t, start_of_tree) ==
    LET tree_end == start_of_tree + FileCount(trees[t], ignored_too)
    IN  IF tree_end >= segment_end
        THEN [done |-> TRUE, tree |-> 0, tree_start |-> start_of_tree,
              start |-> 0, end |-> 0]
        ELSE SnapshotLoop(trees, ignored_too, segment_start, segment_end,
                          t + 1, tree_end)

SegmentStart(w) == w * segment_size(snapshots, include_ignored, cpus)

SegmentEnd(w) == SegmentStart(w) + segment_size(snapshots, include_ignored, cpus)

\* the locals of a worker closure as it starts
InitialLocals(q) ==
    [results              |-> << >>,
     min_score            |-> Zero,
     last_positions       |-> [i \in 1..Len(q) |-> 0],
     match_positions      |-> [i \in 1..Len(q) |-> 0],
     score_matrix         |-> << >>,
     best_position_matrix |-> << >>]

NoEntry ==
    [outcome |-> "none", tree |-> 0, entry |-> 0, min_score |-> Zero,
     score |-> Zero]

\* no WorktreeIndex has been constructed
NoWorktreeIndex ==
    /\ index_alive = FALSE
    /\ updated_entries = << >>
    /\ index_pc = "none"
    /\ passes = {}
    /\ handled = << >>
    /\ sent = 0
    /\ logged = 0

\* the workers, each at the first path_entry of its segment
Started ==
    /\ cancel_flag = FALSE
    /\ pc = "running"
    /\ LET at == [w \in Workers |->
                     SnapshotLoop(snapshots, include_ignored, SegmentStart(w),
                                  SegmentEnd(w), 1, 0)]
       IN  /\ wpc = [w \in Workers |-> IF at[w].done THEN "done" ELSE "scan"]
           /\ tree = [w \in Workers |-> at[w].tree]
           /\ tree_start = [w \in Workers |-> at[w].tree_start]
           /\ next_entry = [w \in Workers |-> at[w].start]
           /\ entry_end = [w \in Workers |-> at[w].end]
    /\ worker = [w \in Workers |-> InitialLocals(query)]
    /\ last = [w \in Workers |-> NoEntry]
    /\ results = << >>
    /\ NoWorktreeIndex

Init ==
    /\ query \in QueryPool
    /\ snapshots \in Workloads
    /\ include_root_name \in BOOLEAN
    /\ include_ignored \in BOOLEAN
    /\ smart_case \in BOOLEAN
    /\ max_results \in 0..MaxResults
    /\ cpus \in 1..MaxCpus
    /\ Started

(***************************************************************************)
(* The workers                                                             *)
(***************************************************************************)
\* the path_entry read through a cursor that another worker's return resets:
\* the first file of the snapshot once some worker is done
PathEntryAfterOthers(w) ==
    Files(snapshots[tree[w]], include_ignored)[
        IF \E v \in Workers : wpc[v] = "done" THEN 1 ELSE next_entry[w] + 1]

\* the path_entry of worker w's next iteration
PathEntry(w) == Files(snapshots[tree[w]], include_ignored)[next_entry[w] + 1]

\* the iteration worker w is about to make
Iteration(w) ==
    match_entry(snapshots[tree[w]], include_root_name, PathEntry(w), query,
                smart_case, max_results, cancel_flag, worker[w])

Record(w, it) ==
    /\ worker' = [worker EXCEPT ![w] = it.loc]
    /\ last' = [last EXCEPT ![w] =
                   [outcome |-> it.outcome, tree |-> tree[w],
                    entry |-> next_entry[w], min_score |-> worker[w].min_score,
                    score |-> it.score]]

\* match_single_tree_paths returns: on to the next snapshot of the segment
LeaveTree(w) ==
    LET at == AfterTree(snapshots, include_ignored, SegmentStart(w),
                        SegmentEnd(w), tree[w], tree_start[w])
    IN  /\ wpc' = [wpc EXCEPT ![w] = IF at.done THEN "done" ELSE "scan"]
        /\ tree' = [tree EXCEPT ![w] = at.tree]
        /\ tree_start' = [tree_start EXCEPT ![w] = at.tree_start]
        /\ next_entry' = [next_entry EXCEPT ![w] = at.start]
        /\ entry_end' = [entry_end EXCEPT ![w] = at.end]

\* `continue`, or the end of the loop body
NextEntry(w) ==
    IF next_entry[w] + 1 < entry_end[w]
    THEN /\ next_entry' = [next_entry EXCEPT ![w] = next_entry[w] + 1]
         /\ UNCHANGED << wpc, tree, tree_start, entry_end >>
    ELSE LeaveTree(w)

\* whether the path_entry of worker w's next iteration passes the CharBag test
BagPasses(w) ==
    is_superset(PathEntry(w).char_bag, CharBagFrom(to_lowercase(query)))

\* the CharBag test fails: continue
SkipEntry(w) ==
    /\ pc = "running" /\ wpc[w] = "scan"
    /\ ~BagPasses(w)
    /\ \E it \in { Iteration(w) } :
           /\ it.outcome = "skipped"
           /\ Record(w, it)
    /\ NextEntry(w)
    /\ UNCHANGED << ivars, args, cancel_flag, pc, results >>

\* the load of cancel_flag gives true: break
CancelBreak(w) ==
    /\ pc = "running" /\ wpc[w] = "scan"
    /\ BagPasses(w) /\ cancel_flag
    /\ \E it \in { Iteration(w) } :
           /\ it.outcome = "cancelled"
           /\ Record(w, it)
    /\ LeaveTree(w)
    /\ UNCHANGED << ivars, args, cancel_flag, pc, results >>

\* whether find_last_positions accepts the path_entry of worker w's next
\* iteration
PositionsFound(w) ==
    find_last_positions(worker[w].last_positions,
        to_lowercase(Prefix(snapshots[tree[w]], include_root_name)),
        to_lowercase(PathEntry(w).path), to_lowercase(query)).ok

\* find_last_positions gives false: continue
RejectEntry(w) ==
    /\ pc = "running" /\ wpc[w] = "scan"
    /\ BagPasses(w) /\ ~cancel_flag /\ ~PositionsFound(w)
    /\ \E it \in { Iteration(w) } :
           /\ it.outcome = "rejected"
           /\ Record(w, it)
    /\ NextEntry(w)
    /\ UNCHANGED << ivars, args, cancel_flag, pc, results >>

\* score_match, and the push of a positive score
ScoreEntry(w) ==
    /\ pc = "running" /\ wpc[w] = "scan"
    /\ BagPasses(w) /\ ~cancel_flag /\ PositionsFound(w)
    /\ \E it \in { Iteration(w) } :
           /\ it.outcome \in {"scored", "panicked"}
           /\ Record(w, it)
           /\ IF it.outcome = "panicked"
              THEN /\ wpc' = [wpc EXCEPT ![w] = "panicked"]
                   /\ UNCHANGED << tree, tree_start, next_entry, entry_end >>
              ELSE NextEntry(w)
    /\ UNCHANGED << ivars, args, cancel_flag, pc, results >>

\* another thread stores true to cancel_flag
Cancel ==
    /\ pc = "running" /\ ~cancel_flag
    /\ cancel_flag' = TRUE
    /\ UNCHANGED << ivars, args, pc, wpc, tree, tree_start, next_entry, entry_end,
                    worker, last, results >>

(***************************************************************************)
(* The merge                                                               *)
(***************************************************************************)
RECURSIVE Flatten(_, _)
\* segment_results.into_iter().flatten(): the heaps' vectors of workers
\* 0..(n - 1), one after the other
Flatten(heaps, n) ==
    IF n = 0 THEN << >> ELSE Flatten(heaps, n - 1) \o heaps[n - 1].results

InsertAt(s, k, x) == SubSeq(s, 1, k - 1) \o << x >> \o SubSeq(s, k, Len(s))

\* s in ascending order of score: the comparison of a with b for that of b with a
SortedAscending(s) ==
    \A i \in 1..(Len(s) - 1) : Leq(s[i].score, s[i + 1].score)

\* whether s is in descending order of score
SortedDescending(s) ==
    \A i \in 1..(Len(s) - 1) : Leq(s[i + 1].score, s[i].score)

\* the list left in the order of the flattening
unsorted(s) == { s }

RECURSIVE sort_unstable_by(_)
\* the orders sort_unstable_by(|a, b| b.score.partial_cmp(&a.score)) may
\* leave: every descending arrangement (equal scores in any order)
sort_unstable_by(s) ==
    IF s = << >> THEN { << >> }
    ELSE { arranged \in
               UNION { { InsertAt(rest, k, Head(s)) : k \in 1..(Len(rest) + 1) }
                       : rest \in sort_unstable_by(Tail(s)) } :
           SortedDescending(arranged) }

\* no truncation at all
truncate_nothing(s, len) == s

\* results.truncate(len)
truncate(s, len) == SubSeq(s, 1, Min(Len(s), len))

\* the merge that does not wait for the workers
MergeBeforeJoin ==
    /\ pc = "running"
    /\ \E sorted \in sort_unstable_by(Flatten(worker, cpus)) :
           results' = truncate(sorted, max_results)
    /\ pc' = "returned"
    /\ UNCHANGED << ivars, args, cancel_flag, wpc, tree, tree_start, next_entry,
                    entry_end, worker, last >>

\* the scope has joined every worker; flatten, sort, truncate, return
Merge ==
    /\ pc = "running"
    /\ \A w \in Workers : wpc[w] = "done"
    /\ \E sorted \in sort_unstable_by(Flatten(worker, cpus)) :
           results' = truncate(sorted, max_results)
    /\ pc' = "returned"
    /\ UNCHANGED << ivars, args, cancel_flag, wpc, tree, tree_start, next_entry,
                    entry_end, worker, last >>

Next ==
    \/ Cancel
    \/ Merge
    \/ \E w \in Workers : SkipEntry(w)
    \/ \E w \in Workers : CancelBreak(w)
    \/ \E w \in Workers : RejectEntry(w)
    \/ \E w \in Workers : ScoreEntry(w)

Spec == Init /\ [][Next]_vars

(***************************************************************************)
(* A call on one snapshot of one file: the query, the root name and the    *)
(* path are all the strings over Alphabet up to the lengths below          *)
(***************************************************************************)
\* the longest query
MaxQueryLen == 2

\* the longest path
MaxPathLen == 2

\* the longest root name
MaxRootLen == 1

Alphabet == { "a", "B", "/" }

\* the strings over Alphabet of length at most n
Strings(n) == UNION { [1..k -> Alphabet] : k \in 0..n }

InitOne ==
    /\ query \in Strings(MaxQueryLen)
    /\ \E root \in Strings(MaxRootLen), path \in Strings(MaxPathLen) \ { << >> } :
           snapshots = << [id |-> 11, root_name |-> root,
                           entries |-> << FileEntry(path, FALSE) >>] >>
    /\ include_root_name \in BOOLEAN
    /\ include_ignored = FALSE
    /\ smart_case = FALSE
    /\ max_results = 1
    /\ cpus = 1
    /\ Started

SpecOne == InitOne /\ [][Next]_vars

(***************************************************************************)
(* What the properties speak of                                            *)
(***************************************************************************)
\* the snapshot and the path_entry of worker w's last iteration
LastSnapshot(w) == snapshots[last[w].tree]

LastPathEntry(w) == Files(LastSnapshot(w), include_ignored)[last[w].entry + 1]

\* lowercase_prefix ++ lowercase_path of worker w's last iteration
LastLP(w) ==
    to_lowercase(Prefix(LastSnapshot(w), include_root_name))
        \o to_lowercase(LastPathEntry(w).path)

\* the snapshot a returned PathMatch names
SnapshotOf(m) ==
    snapshots[CHOOSE t \in 1..Len(snapshots) : snapshots[t].id = m.tree_id]

StrictlyIncreasing(s) == \A i \in 1..(Len(s) - 1) : s[i] < s[i + 1]

\* every worker's heap, as match_paths flattens them
Collected == Flatten(worker, cpus)


(***************************************************************************)
(* The returned list                                                       *)
(***************************************************************************)
\* positions has one entry per query character, is strictly increasing and
\* stays below |prefix| + |path|
PositionsValid(m) ==
    /\ Len(m.positions) = Len(query)
    /\ StrictlyIncreasing(m.positions)
    /\ \A i \in 1..Len(m.positions) :
           m.positions[i] < Len(Prefix(SnapshotOf(m), include_root_name))
                                + Len(m.path)

\* C1: every PathMatch that match_paths returns has one position per query
\* character, strictly increasing positions, and every position below
\* |prefix| + |path|, whether it was scored before or after min_score became
\* positive.
C1_ReturnedPositionsValid ==
    pc = "returned" => \A i \in 1..Len(results) : PositionsValid(results[i])

\* C2: match_paths returns at most max_results entries, each of a score
\* strictly greater than 0.
C2_AtMostMaxResultsAllPositive ==
    pc = "returned" =>
        /\ Len(results) <= max_results
        /\ \A i \in 1..Len(results) : Positive(results[i].score)

\* a call has returned max_results >= 1 entries and has dropped others
C2_Witness ==
    /\ pc = "returned"
    /\ max_results >= 1
    /\ Len(results) = max_results
    /\ Len(Collected) > max_results

\* C3: the returned list is in descending order of score: of two adjacent
\* entries the earlier has a score >= the later's.
C3_ReturnedDescending ==
    pc = "returned" =>
        \A i \in 1..(Len(results) - 1) :
            ~Less(results[i].score, results[i + 1].score)

\* a call has returned two entries of different scores that the workers
\* had collected in ascending order
C3_Witness ==
    /\ pc = "returned"
    /\ Len(results) = 2
    /\ Less(results[2].score, results[1].score)
    /\ Len(Collected) = 2
    /\ Less(Collected[1].score, Collected[2].score)


(***************************************************************************)
(* One worker against several                                              *)
(***************************************************************************)
RECURSIVE ScanFrom(_, _, _)
\* the locals of a single worker, uncancelled, once it has gone through
\* every file from entry e (0-based) of snapshot t on
ScanFrom(t, e, loc) ==
    IF t > Len(snapshots) THEN loc
    ELSE IF e >= FileCount(snapshots[t], include_ignored)
    THEN ScanFrom(t + 1, 0, loc)
    ELSE ScanFrom(t, e + 1,
             match_entry(snapshots[t], include_root_name,
                         Files(snapshots[t], include_ignored)[e + 1], query,
                         smart_case, max_results, FALSE, loc).loc)

\* the bag of the (path, score) pairs of a list of PathMatch
PairsOf(s) ==
    LET pair(i) == << s[i].path, s[i].score >>
    IN  [p \in { pair(i) : i \in 1..Len(s) } |->
            Cardinality({ i \in 1..Len(s) : pair(i) = p })]

\* a tie of score across the boundary of the max_results best of `found`
TieAtBoundary(found) ==
    \E sorted \in sort_unstable_by(found) :
        /\ max_results >= 1
        /\ Len(sorted) > max_results
        /\ sorted[max_results].score = sorted[max_results + 1].score

\* C4: without cancellation and without a tie of score across the boundary
\* of the max_results best, match_paths with any number of workers returns
\* the same multiset of (path, score) pairs as with one worker on the same
\* arguments.
C4_SameAsOneWorker ==
    (pc = "returned" /\ ~cancel_flag) =>
        \A one \in { ScanFrom(1, 0, InitialLocals(query)).results } :
            (~TieAtBoundary(Collected) /\ ~TieAtBoundary(one)) =>
                PairsOf(results) \in
                    { PairsOf(truncate(sorted, max_results)) :
                          sorted \in sort_unstable_by(one) }

(***************************************************************************)
(* The two filters and the memo table                                      *)
(***************************************************************************)
\* find_last_positions on the path_entry of worker w's last iteration
LastFound(w) ==
    find_last_positions(worker[w].last_positions,
        to_lowercase(Prefix(LastSnapshot(w), include_root_name)),
        to_lowercase(LastPathEntry(w).path), to_lowercase(query))

\* score_match on the path_entry of worker w's last iteration, with the
\* min_score the iteration started from
LastScore(w, last_positions, memo) ==
    score_match(
        ScoreContext(LastSnapshot(w), include_root_name, LastPathEntry(w),
                     query, smart_case, last_positions, last[w].min_score, memo),
        Cleared(Len(query) * Len(LastLP(w)), None),
        Cleared(Len(query) * Len(LastLP(w)), 0),
        worker[w].match_positions).score

\* C5: the CharBag test has no false negative: a candidate that
\* find_last_positions and score_match on prefix ++ path give a score > 0
\* is not skipped by the CharBag test, whatever include_root_name is.
C5_CharBagNoFalseNegative ==
    \A w \in Workers :
        last[w].outcome = "skipped" =>
            \A found \in { LastFound(w) } :
                found.ok => ~Positive(LastScore(w, found.last_positions, TRUE))

RECURSIVE AcceptedFrom(_, _, _, _)
\* whether the query characters i, i+1, ... (1-based) can be assigned
\* strictly increasing columns among j, j+1, ... (1-based) of lp, each
\* column accepted for its character (the leftmost accepted column is taken:
\* a column is accepted or not whatever the columns chosen before)
AcceptedFrom(cased, lp, i, j) ==
    IF i > Len(cased) THEN TRUE
    ELSE IF j > Len(lp) THEN FALSE
    ELSE IF ColumnAccepted(cased[i], lp[j])
    THEN AcceptedFrom(cased, lp, i + 1, j + 1)
    ELSE AcceptedFrom(cased, lp, i, j + 1)

\* C6: when find_last_positions rejects a candidate, no strictly increasing
\* assignment of columns of prefix ++ path to the query characters satisfies
\* the scorer's acceptance condition at every column.
C6_PrefilterSound ==
    \A w \in Workers :
        last[w].outcome = "rejected" =>
            ~AcceptedFrom(to_lowercase(query), LastLP(w), 1, 1)

\* the order-preserving embeddings of q into lp, as 0-based columns
Embeddings(q, lp) ==
    { f \in [1..Len(q) -> 0..(Len(lp) - 1)] :
          /\ StrictlyIncreasing(f)
          /\ \A i \in 1..Len(q) : lp[f[i] + 1] = q[i] }

\* C7: find_last_positions returns true exactly when the lowercase query is
\* a subsequence of lowercase_prefix ++ lowercase_path; last_positions is
\* then strictly increasing, holds for each query character a column of that
\* character, and that column is the greatest the character has in any
\* order-preserving embedding of the query.
C7_LastPositionsGreatestEmbedding ==
    \A w \in Workers :
        last[w].outcome \in {"rejected", "scored", "panicked"} =>
            \A all \in { Embeddings(to_lowercase(query), LastLP(w)) } :
                /\ (last[w].outcome = "rejected") <=> (all = {})
                /\ last[w].outcome # "rejected" =>
                       /\ StrictlyIncreasing(worker[w].last_positions)
                       /\ worker[w].last_positions \in all
                       /\ \A f \in all : \A i \in 1..Len(query) :
                              f[i] <= worker[w].last_positions[i]

\* a query of two characters is accepted, the first found in the prefix and
\* the second in the path, where another embedding has smaller columns
C7_Witness ==
    \E w \in Workers :
        /\ last[w].outcome = "scored"
        /\ Len(query) = 2
        /\ include_root_name
        /\ worker[w].last_positions[1] < Len(LastSnapshot(w).root_name)
        /\ worker[w].last_positions[2] >= Len(LastSnapshot(w).root_name)
        /\ Cardinality(Embeddings(to_lowercase(query), LastLP(w))) > 1

\* C8: the score that score_match returns with the memo table equals the
\* score of the same recursion (same last_positions, same min_score, same
\* pruning) without the memo lookup.
C8_MemoConsistent ==
    \A w \in Workers :
        last[w].outcome = "scored" =>
            last[w].score = LastScore(w, worker[w].last_positions, FALSE)

(***************************************************************************)
(* The empty query and max_results = 0                                     *)
(***************************************************************************)
\* C9: with an empty query no worker panics and match_paths returns the
\* empty list.
C9_EmptyQueryReturnsEmpty ==
    query = << >> =>
        /\ \A w \in Workers : wpc[w] # "panicked"
        /\ pc = "returned" => results = << >>

\* a call with the empty query has returned after score_match ran on a file
C9_Witness ==
    /\ query = << >>
    /\ pc = "returned"
    /\ \E w \in Workers : last[w].outcome = "scored"

\* C10: with max_results = 0 no worker's min_score becomes positive and
\* match_paths returns the empty list.
C10_ZeroMaxResultsReturnsEmpty ==
    max_results = 0 =>
        /\ \A w \in Workers : ~Positive(worker[w].min_score)
        /\ pc = "returned" => results = << >>

\* a call with max_results = 0 has returned after a worker pushed a match
C10_Witness ==
    /\ max_results = 0
    /\ pc = "returned"
    /\ \E w \in Workers : Len(worker[w].results) >= 1


(***************************************************************************)
(* Cancellation                                                            *)
(***************************************************************************)
\* C11: once a worker's load of cancel_flag has given true, the worker makes
\* no further iteration, in that snapshot or in a later one of its segment,
\* and pushes no further result.
C11_ScanEndsAtCancel ==
    [][\A w \in Workers :
           last[w].outcome = "cancelled" =>
               /\ last'[w] = last[w]
               /\ worker'[w] = worker[w]]_vars


\* the first snapshot of worker w's segment, as SnapshotLoop gives it
FirstTree(w) ==
    SnapshotLoop(snapshots, include_ignored, SegmentStart(w), SegmentEnd(w), 1, 0)

\* the snapshot of worker w's segment after the one `at` names
NextTree(w, at) ==
    AfterTree(snapshots, include_ignored, SegmentStart(w), SegmentEnd(w),
              at.tree, at.tree_start)

RECURSIVE ScanSegment(_, _, _, _)
\* the locals of worker w, uncancelled, once it has gone through its segment
\* from entry e (0-based) of the snapshot `at` names on
ScanSegment(w, at, e, loc) ==
    IF at.done THEN loc
    ELSE IF e >= at.end
    THEN ScanSegment(w, NextTree(w, at), NextTree(w, at).start, loc)
    ELSE ScanSegment(w, at, e + 1,
             match_entry(snapshots[at.tree], include_root_name,
                         Files(snapshots[at.tree], include_ignored)[e + 1],
                         query, smart_case, max_results, FALSE, loc).loc)

\* the heap of worker w at the end of the run that is not cancelled
Uncancelled(w) ==
    ScanSegment(w, FirstTree(w), FirstTree(w).start, InitialLocals(query)).results

\* the workers are scheduled until they end, and the scope then returns
FairSpec == Init /\ [][Next]_vars /\ WF_vars(Next)

\* the list returned after a cancellation: at most max_results entries, in
\* descending order of score, each taken from a worker's heap, and every
\* entry of a worker's heap is one that worker pushes, with that score and
\* those positions, when the run is not cancelled
ValidPartialResult ==
    /\ Len(results) <= max_results
    /\ \A i \in 1..(Len(results) - 1) :
           ~Less(results[i].score, results[i + 1].score)
    /\ Range(results) \subseteq Range(Collected)
    /\ \A w \in Workers : Range(worker[w].results) \subseteq Range(Uncancelled(w))

\* C12: when cancel_flag is set to true during a call, under any
\* interleaving with the workers, the call still returns, and what it
\* returns is a valid partial result: at most max_results entries, sorted by
\* score descending, each one pushed by the same worker with the same score
\* and positions in the run that is not cancelled.
C12_CancelledRunReturnsValidPartial ==
    /\ [](pc = "returned" /\ cancel_flag => ValidPartialResult)
    /\ (cancel_flag ~> pc = "returned")

\* a cancelled call has returned a match while a worker had pushed fewer
\* matches than it does when the run is not cancelled
C12_Witness ==
    /\ pc = "returned"
    /\ cancel_flag
    /\ Len(results) >= 1
    /\ \E w \in Workers : Len(worker[w].results) < Len(Uncancelled(w))


(***************************************************************************)
(* tests::test_match_path_entries and tests::match_query: one call of      *)
(* match_single_tree_paths on the eleven paths, nothing cancelling it      *)
(***************************************************************************)
\* `paths` of test_match_path_entries
TestPaths ==
    << <<  >>,
       << "a" >>,
       << "a", "b" >>,
       << "a", "b", "C" >>,
       << "a", "b", "c", "d" >>,
       << "a", "l", "p", "h", "a", "b", "r", "a", "v", "o", "c", "h", "a", "r", "l", "i", "e" >>,
       << "A", "l", "p", "h", "a", "B", "r", "a", "v", "o", "C", "h", "a", "r", "l", "i", "e" >>,
       << "t", "h", "i", "s", "i", "s", "a", "t", "e", "s", "t", "d", "i", "r" >>,
       << "/", "/", "/", "/", "/", "T", "h", "i", "s", "I", "s", "A", "T", "e", "s", "t", "D", "i", "r" >>,
       << "/", "t", "h", "i", "s", "/", "i", "s", "/", "a", "/", "t", "e", "s", "t", "/", "d", "i", "r" >>,
       << "/", "t", "e", "s", "t", "/", "t", "i", "a", "t", "d" >> >>

QueryABC == << "a", "b", "c" >>

QuerySlashes == << "t", "/", "i", "/", "a", "/", "t", "/", "d" >>

QueryTIATD == << "t", "i", "a", "t", "d" >>

\* the queries of the three assertions, and two shorter ones
TestQueries == { QueryABC, QuerySlashes, QueryTIATD, << "a" >>, << "a", "b" >> }

\* the Snapshot literal of match_query, with path_entries as its files
TestSnapshot ==
    [id        |-> 0,
     root_name |-> << >>,
     entries   |-> [i \in 1..Len(TestPaths) |-> FileEntry(TestPaths[i], FALSE)]]

\* the max_results match_query passes
TestMaxResults == 100

InitTest ==
    /\ query \in TestQueries
    /\ snapshots = << TestSnapshot >>
    /\ include_root_name = FALSE
    /\ include_ignored = TRUE
    /\ smart_case \in BOOLEAN
    /\ max_results = TestMaxResults
    /\ cpus = 1
    /\ Started

\* Iterator::rev
Reverse(s) == [i \in 1..Len(s) |-> s[Len(s) + 1 - i]]

\* results.into_iter().rev()...collect(): the heap's vector, last item first
MatchQueryReturn ==
    /\ pc = "running"
    /\ \A w \in Workers : wpc[w] = "done"
    /\ results' = Reverse(worker[0].results)
    /\ pc' = "returned"
    /\ UNCHANGED << ivars, args, cancel_flag, wpc, tree, tree_start, next_entry,
                    entry_end, worker, last >>

NextTest ==
    \/ \E w \in Workers : SkipEntry(w)
    \/ \E w \in Workers : RejectEntry(w)
    \/ \E w \in Workers : ScoreEntry(w)
    \/ MatchQueryReturn

SpecTest == InitTest /\ [][NextTest]_vars

\* the (path, positions) pairs of a list of matches, in its order
PathsAndPositions(s) == [i \in 1..Len(s) |-> << s[i].path, s[i].positions >>]

\* the rankings of a list by score, highest first
Rankings(s) == { PathsAndPositions(sorted) : sorted \in sort_unstable_by(s) }

ExpectedABC ==
    << << << "a", "b", "C" >>, << 0, 1, 2 >> >>,
       << << "a", "b", "c", "d" >>, << 0, 1, 2 >> >>,
       << << "A", "l", "p", "h", "a", "B", "r", "a", "v", "o", "C", "h", "a", "r", "l", "i", "e" >>, << 0, 5, 10 >> >>,
       << << "a", "l", "p", "h", "a", "b", "r", "a", "v", "o", "c", "h", "a", "r", "l", "i", "e" >>, << 4, 5, 10 >> >> >>

\* C13: match_query("abc", false, paths) returns exactly four matches, and
\* ranked by score, highest first, they are abC [0,1,2], abcd [0,1,2],
\* AlphaBravoCharlie [0,5,10], alphabravocharlie [4,5,10], in this order and
\* in no other.
C13_ScenarioABC ==
    (pc = "returned" /\ query = QueryABC /\ ~smart_case)
        => /\ Len(results) = 4
           /\ Rankings(results) = { ExpectedABC }

C13_Witness ==
    /\ pc = "returned" /\ query = QueryABC /\ ~smart_case
    /\ Len(results) = 4
    /\ last[0].outcome = "skipped"


ExpectedTIATD ==
    << << << "/", "t", "e", "s", "t", "/", "t", "i", "a", "t", "d" >>,
          << 6, 7, 8, 9, 10 >> >>,
       << << "/", "t", "h", "i", "s", "/", "i", "s", "/", "a", "/", "t", "e", "s", "t", "/", "d", "i", "r" >>,
          << 1, 6, 9, 11, 16 >> >>,
       << << "/", "/", "/", "/", "/", "T", "h", "i", "s", "I", "s", "A", "T", "e", "s", "t", "D", "i", "r" >>,
          << 5, 9, 11, 12, 16 >> >>,
       << << "t", "h", "i", "s", "i", "s", "a", "t", "e", "s", "t", "d", "i", "r" >>,
          << 0, 2, 6, 7, 11 >> >> >>

\* C14: match_query("tiatd", false, paths) gives, ranked by score, highest
\* first, /test/tiatd [6,7,8,9,10], /this/is/a/test/dir [1,6,9,11,16],
\* /////ThisIsATestDir [5,9,11,12,16], thisisatestdir [0,2,6,7,11], in this
\* order and in no other: the contiguous match in the file name, then the
\* segment starts, then the camel-case boundaries, then the scattered match.
C14_ScenarioTIATD ==
    (pc = "returned" /\ query = QueryTIATD /\ ~smart_case)
        => Rankings(results) = { ExpectedTIATD }

C14_Witness ==
    /\ pc = "returned" /\ query = QueryTIATD /\ ~smart_case
    /\ Len(results) = Len(ExpectedTIATD)
    /\ last[0].outcome = "scored"


ExpectedSlashes ==
    << << << "/", "t", "h", "i", "s", "/", "i", "s", "/", "a", "/", "t", "e", "s", "t", "/", "d", "i", "r" >>,
          << 1, 5, 6, 8, 9, 10, 11, 15, 16 >> >> >>

\* C15: match_query("t/i/a/t/d", false, paths) returns one match and no
\* more: /this/is/a/test/dir with positions [1,5,6,8,9,10,11,15,16].
C15_ScenarioSlashes ==
    (pc = "returned" /\ query = QuerySlashes /\ ~smart_case)
        => PathsAndPositions(results) = ExpectedSlashes

C15_Witness ==
    /\ pc = "returned" /\ query = QuerySlashes /\ ~smart_case
    /\ Len(results) = 1
    /\ last[0].outcome = "rejected"


(***************************************************************************)
(* The workers do not depend on one another                                *)
(***************************************************************************)
\* the heaps of all workers, each having scanned its whole segment
UncancelledHeaps == [w \in Workers |-> [results |-> Uncancelled(w)]]

RECURSIVE SegmentCandidates(_, _, _)
\* the candidates worker w's loops hand to the loop body from entry e of the
\* snapshot `at` on, in order, each with the snapshot it belongs to
SegmentCandidates(w, at, e) ==
    IF at.done THEN << >>
    ELSE IF e >= at.end
    THEN SegmentCandidates(w, NextTree(w, at), NextTree(w, at).start)
    ELSE << [snapshot   |-> snapshots[at.tree],
             path_entry |-> Files(snapshots[at.tree], include_ignored)[e + 1]] >>
         \o SegmentCandidates(w, at, e + 1)

Candidates(w) == SegmentCandidates(w, FirstTree(w), FirstTree(w).start)

RECURSIVE ScanCandidates(_, _, _)
\* the locals of a worker, uncancelled, once the loop body has run on the
\* candidates i, i + 1, ... of cands
ScanCandidates(cands, i, loc) ==
    IF i > Len(cands) THEN loc
    ELSE ScanCandidates(cands, i + 1,
             match_entry(cands[i].snapshot, include_root_name,
                         cands[i].path_entry, query, smart_case, max_results,
                         FALSE, loc).loc)

\* the orders the candidates of cands can be put in
Reorderings(cands) ==
    { [i \in 1..Len(cands) |-> cands[p[i]]] : p \in Permutations(1..Len(cands)) }

\* the bags of (path, score) pairs that the max_results best of `found` can be
TopPairs(found) ==
    { PairsOf(truncate(sorted, max_results)) : sorted \in sort_unstable_by(found) }

\* the vector match_paths sorts when worker w's heap is replaced by heap
CollectedWith(w, heap) ==
    Flatten([UncancelledHeaps EXCEPT ![w] = [results |-> heap]], cpus)

\* C17: when the flag is never set, putting the candidates of one worker's
\* segment in another order leaves the (path, score) pairs of the max_results
\* best unchanged, unless a tie of score crosses the boundary of the
\* max_results best.
C17_ReorderingKeepsTopK ==
    (pc = "returned" /\ ~cancel_flag) =>
        \A w \in Workers :
            \A reordered \in Reorderings(Candidates(w)) :
                \A other \in { CollectedWith(w,
                                   ScanCandidates(reordered, 1,
                                       InitialLocals(query)).results) } :
                    (~TieAtBoundary(Collected) /\ ~TieAtBoundary(other))
                        => TopPairs(other) = TopPairs(Collected)


(***************************************************************************)
(* The collector of a worker                                               *)
(***************************************************************************)
\* C18: a worker's heap never holds more than max_results matches, and
\* whenever it holds exactly max_results of them min_score is the least
\* score in it.
C18_HeapHoldsAtMostMaxResults ==
    \A w \in Workers :
        /\ Len(worker[w].results) <= max_results
        /\ (Len(worker[w].results) = max_results /\ max_results >= 1)
               => worker[w].min_score = HeapPeek(worker[w].results).score


\* C19: a step never lowers a worker's min_score, and min_score is 0 as long
\* as the worker's heap holds fewer than max_results matches.
C19_MinScoreNeverDecreases ==
    /\ [](\A w \in Workers :
              Len(worker[w].results) < max_results
                  => worker[w].min_score = Zero)
    /\ [][\A w \in Workers :
              ~Less(worker'[w].min_score, worker[w].min_score)]_vars

C19_Witness ==
    \E w \in Workers :
        /\ Positive(worker[w].min_score)
        /\ Len(worker[w].results) > max_results
        /\ last[w].outcome = "scored"
        /\ last[w].tree > 1


(***************************************************************************)
(* The partition of the files among the workers                            *)
(***************************************************************************)
\* the global index of the first file of snapshot t
TreeStartOf(t) == SumFileCounts(snapshots, include_ignored, t - 1)

\* the global index of the file of worker w's next iteration
GlobalIndex(w) == tree_start[w] + next_entry[w]

\* the end of worker w's share of the global indices
OwnedEnd(w) == Min(SegmentEnd(w), path_count(snapshots, include_ignored))

\* segment_size is path_count / cpus rounded up
SegmentSizeIsCeiling ==
    LET n == path_count(snapshots, include_ignored)
        s == segment_size(snapshots, include_ignored, cpus)
    IN  /\ s * cpus >= n
        /\ n > 0 => (s - 1) * cpus < n
        /\ n = 0 => s = 0

\* a scanning worker is at a file of its own share, in the snapshot that
\* holds the file
AtOwnedFile(w) ==
    wpc[w] = "scan" =>
        /\ tree[w] \in 1..Len(snapshots)
        /\ tree_start[w] = TreeStartOf(tree[w])
        /\ next_entry[w] < FileCount(snapshots[tree[w]], include_ignored)
        /\ SegmentStart(w) <= GlobalIndex(w)
        /\ GlobalIndex(w) < OwnedEnd(w)

\* a worker that has made no iteration is at the first file of its share, or
\* is done when its share is empty
StartsAtSegmentStart(w) ==
    last[w].outcome = "none" =>
        IF SegmentStart(w) < OwnedEnd(w)
        THEN wpc[w] = "scan" /\ GlobalIndex(w) = SegmentStart(w)
        ELSE wpc[w] = "done"

\* a match a worker has just pushed names the file of the iteration and the
\* id of its snapshot
PushedFromSnapshot(w) ==
    (last[w].outcome = "scored" /\ Positive(last[w].score)) =>
        \E m \in Range(worker[w].results) :
            /\ m.path = LastPathEntry(w).path
            /\ m.tree_id = LastSnapshot(w).id
            /\ m.score = last[w].score

\* an iteration of worker w moves it to the next global index, and the
\* worker is done exactly when the next index is the end of its share
StepsToNextIndex(w) ==
    (/\ wpc[w] = "scan"
     /\ << wpc[w], tree[w], next_entry[w] >> # << wpc[w], tree[w], next_entry[w] >>') =>
        IF wpc'[w] = "scan"
        THEN GlobalIndex(w)' = GlobalIndex(w) + 1
        ELSE wpc'[w] = "done" /\ GlobalIndex(w) + 1 = OwnedEnd(w)

\* C20: while the flag is not set, the workers go through the global file
\* indices 0 .. path_count - 1 exactly once: segment_size is path_count /
\* cpus rounded up, worker w starts at index w * segment_size, every
\* iteration takes the file of the next index from the snapshot that holds
\* it (whose id the pushed match carries), and the worker stops at
\* min((w + 1) * segment_size, path_count).
C20_PartitionExact ==
    /\ [](~cancel_flag =>
              /\ SegmentSizeIsCeiling
              /\ \A w \in Workers :
                     /\ AtOwnedFile(w)
                     /\ StartsAtSegmentStart(w)
                     /\ PushedFromSnapshot(w))
    /\ [][~cancel_flag' => \A w \in Workers : StepsToNextIndex(w)]_vars

C20_Witness ==
    /\ pc = "returned" /\ ~cancel_flag /\ cpus = 2
    /\ \E t \in 1..Len(snapshots) : FileCount(snapshots[t], include_ignored) = 0
    /\ \E t \in 1..Len(snapshots) :
           /\ FileCount(snapshots[t], include_ignored) = 2
           /\ \A w \in Workers : last[w].tree = t /\ last[w].entry = w


(***************************************************************************)
(* The join at the end of the scope                                        *)
(***************************************************************************)
\* C21: the merge starts only when every worker closure has returned and
\* sorts the heaps as the workers left them; once the merge has begun no
\* worker changes its heap, its scratch state or its place in the scan; and
\* every call returns in the end.
C21_MergeAfterJoin ==
    /\ [](pc = "returned" => \A w \in Workers : wpc[w] = "done")
    /\ [][(pc = "running" /\ pc' = "returned") =>
              /\ \A w \in Workers : wpc[w] = "done"
              /\ results' \in { truncate(sorted, max_results) :
                                  sorted \in sort_unstable_by(Flatten(worker, cpus)) }]_vars
    /\ [][pc = "returned" =>
              UNCHANGED << worker, wpc, tree, tree_start, next_entry, entry_end,
                           last >>]_vars
    /\ <>(pc = "returned")

C21_Witness ==
    /\ pc = "returned" /\ cpus = 2
    /\ \A w \in Workers : last[w].outcome = "scored" /\ Len(worker[w].results) >= 1


(***************************************************************************)
(* The polls of cancel_flag                                                *)
(***************************************************************************)
\* whether worker w's last iteration loaded cancel_flag: every iteration
\* but the one that ends at the `continue` of the CharBag test
Polled(w) == last[w].outcome \in {"cancelled", "rejected", "scored", "panicked"}

\* whether worker w's last iteration reached find_last_positions
ReachedScoring(w) == last[w].outcome \in {"rejected", "scored", "panicked"}

\* C22: every iteration of a worker loads cancel_flag once, and an iteration
\* reaches find_last_positions and score_match only when its load gave false.
C22_PolledOncePerCandidate ==
    [][\A w \in Workers :
           last'[w] # last[w] =>
               /\ Polled(w)'
               /\ ReachedScoring(w)' => ~cancel_flag]_vars


(***************************************************************************)
(* The scratch state of a worker                                           *)
(***************************************************************************)
\* score_match on the path_entry of worker w's last iteration with the
\* min_score the iteration started from, by a worker that has scored
\* nothing before: last_positions, match_positions and the two matrices as
\* the closure creates them
FreshScore(w) ==
    score_match(
        ScoreContext(LastSnapshot(w), include_root_name, LastPathEntry(w), query,
            smart_case,
            find_last_positions(InitialLocals(query).last_positions,
                to_lowercase(Prefix(LastSnapshot(w), include_root_name)),
                to_lowercase(LastPathEntry(w).path),
                to_lowercase(query)).last_positions,
            last[w].min_score, TRUE),
        Cleared(Len(query) * Len(LastLP(w)), None),
        Cleared(Len(query) * Len(LastLP(w)), 0),
        InitialLocals(query).match_positions)

\* C23: the two matrices a call of score_match leaves have |query| *
\* (|prefix| + |path|) cells, and the score and the positions of a scored
\* candidate are those a worker that has scored nothing before computes for
\* it with the same min_score.
C23_ScratchDoesNotLeak ==
    \A w \in Workers :
        last[w].outcome = "scored" =>
            \A fresh \in { FreshScore(w) } :
                /\ Len(worker[w].score_matrix) = Len(query) * Len(LastLP(w))
                /\ Len(worker[w].best_position_matrix) = Len(query) * Len(LastLP(w))
                /\ last[w].score = fresh.score
                /\ Positive(last[w].score)
                       => worker[w].match_positions = fresh.match_positions

C23_Witness ==
    \E w \in Workers :
        /\ last[w].outcome = "scored" /\ Positive(last[w].score)
        /\ Len(worker[w].results) >= 2
        /\ worker[w].results[1].path # worker[w].results[2].path

(***************************************************************************)
(* Pruning by min_score                                                    *)
(***************************************************************************)
\* score_match on the path_entry of worker w's last iteration with
\* min_score = 0
UnprunedScore(w) ==
    score_match(
        ScoreContext(LastSnapshot(w), include_root_name, LastPathEntry(w),
                     query, smart_case, worker[w].last_positions, Zero, TRUE),
        Cleared(Len(query) * Len(LastLP(w)), None),
        Cleared(Len(query) * Len(LastLP(w)), 0),
        InitialLocals(query).match_positions)

\* C24: pruning is admissible: a candidate scored while the worker's
\* min_score is m > 0, and whose score with min_score = 0 is >= m, gets the
\* same score and the same positions as with min_score = 0.
C24_PruningAdmissible ==
    \A w \in Workers :
        (last[w].outcome = "scored" /\ Positive(last[w].min_score)) =>
            \A unpruned \in { UnprunedScore(w) } :
                Leq(last[w].min_score, unpruned.score) =>
                    /\ last[w].score = unpruned.score
                    /\ worker[w].match_positions = unpruned.match_positions

(***************************************************************************)
(* The merge keeps the best                                                *)
(***************************************************************************)
\* how many entries of the list s equal x
CountIn(s, x) == Cardinality({ i \in 1..Len(s) : s[i] = x })

\* C25: the returned list is a sub-multiset of the union of the workers'
\* heaps, no entry left out has a score strictly greater than the score of
\* a returned entry, and a union of at most max_results entries is returned
\* whole.
C25_MergeReturnsKBest ==
    pc = "returned" =>
        /\ \A i \in 1..Len(results) :
               CountIn(results, results[i]) <= CountIn(Collected, results[i])
        /\ \A i \in 1..Len(Collected) :
               CountIn(results, Collected[i]) < CountIn(Collected, Collected[i])
                   => \A j \in 1..Len(results) :
                          ~Less(results[j].score, Collected[i].score)
        /\ Len(Collected) <= max_results =>
               \A i \in 1..Len(Collected) :
                   CountIn(results, Collected[i]) = CountIn(Collected, Collected[i])

\* a call has returned fewer entries than two workers collected, and the
\* first collected entry scores less than the last
C25_Witness ==
    /\ pc = "returned"
    /\ cpus >= 2
    /\ Len(results) >= 1
    /\ Len(Collected) > Len(results)
    /\ Less(Collected[1].score, Collected[Len(Collected)].score)
    /\ worker[0].results # << >>

(***************************************************************************)
(* The positions and the score                                             *)
(***************************************************************************)
\* the context of score_match in worker w's last iteration
LastContext(w) ==
    ScoreContext(LastSnapshot(w), include_root_name, LastPathEntry(w), query,
                 smart_case, worker[w].last_positions, last[w].min_score, TRUE)

\* last_slash once the loop of the first query character has reached
\* column j: the last separator among the columns 0..j, or 0
LastSlashAt(c, j) ==
    LET seps == { k \in 0..j : IsPathSep(PathCharAt(c, k)) }
    IN  IF seps = {} THEN 0 ELSE CHOOSE k \in seps : \A o \in seps : o <= k

\* the multiplier of query character i (0-based) along the alignment f
\* (0-based columns): the search starts after the column of character i - 1
AlignedMultiplier(c, f, i) ==
    Multiplier(c, i, IF i = 0 THEN 0 ELSE f[i] + 1, f[i + 1],
               IF i = 0 THEN LastSlashAt(c, f[1]) ELSE 0)

RECURSIVE AlignmentProduct(_, _, _)
\* the product of the multipliers of the query characters 0..n-1 along f
AlignmentProduct(c, f, n) ==
    IF n = 0 THEN One
    ELSE Mul(AlignmentProduct(c, f, n - 1), AlignedMultiplier(c, f, n - 1))

\* |query| times the product of the multipliers along f
AlignmentScore(c, f) ==
    Mul(LenAsScore(c.query), AlignmentProduct(c, f, Len(c.query)))

\* whether every column of f is accepted for its query character
AlignmentAccepted(c, f) ==
    /\ Len(f) = Len(c.query)
    /\ \A i \in 1..Len(f) :
           /\ f[i] < PathLen(c)
           /\ ColumnAccepted(c.query_cased[i], PathCharAt(c, f[i]))

RECURSIVE AlignmentsFrom(_, _, _)
\* the ways to give the query characters i, i+1, ... (0-based) strictly
\* increasing accepted columns from column j on, the column of character k
\* at or before last_positions[k]
AlignmentsFrom(c, i, j) ==
    IF i = Len(c.query) THEN { << >> }
    ELSE UNION { { << k >> \o rest : rest \in AlignmentsFrom(c, i + 1, k + 1) }
                 : k \in { k \in j..Min(c.last_positions[i + 1], PathLen(c) - 1) :
                               ColumnAccepted(c.query_cased[i + 1],
                                              PathCharAt(c, k)) } }

\* the strictly increasing accepted alignments with column i at or before
\* last_positions[i]
Alignments(c) == AlignmentsFrom(c, 0, 0)

\* C26: the positions of every pushed result realise its score: every
\* column is accepted for its query character, |query| times the product of
\* the multipliers along the positions is the score, and with min_score = 0
\* the score is the maximum of that product over the strictly increasing
\* alignments with column i <= last_positions[i].
C26_PositionsRealiseScore ==
    \A w \in Workers :
        (last[w].outcome = "scored" /\ Positive(last[w].score)) =>
            \A c \in { LastContext(w) } :
                /\ AlignmentAccepted(c, worker[w].match_positions)
                /\ AlignmentScore(c, worker[w].match_positions) = last[w].score
                /\ last[w].min_score = Zero =>
                       /\ worker[w].match_positions \in Alignments(c)
                       /\ \A f \in Alignments(c) :
                              Leq(AlignmentScore(c, f), last[w].score)

(***************************************************************************)
(* Separators, '_' and '\' in the scorer                                   *)
(***************************************************************************)
\* the longest query of the separator runs
MaxSepQueryLen == 2

\* the longest path of the separator runs
MaxSepPathLen == 3

SepAlphabet == { "a", "_", "/", "\\" }

\* the strings over SepAlphabet of length at most n
SepStrings(n) == UNION { [1..k -> SepAlphabet] : k \in 0..n }

\* one worker, one snapshot of one file over SepAlphabet
InitSep ==
    /\ query \in SepStrings(MaxSepQueryLen)
    /\ \E path \in SepStrings(MaxSepPathLen) \ { << >> } :
           snapshots = << [id |-> 11, root_name |-> << "a" >>,
                           entries |-> << FileEntry(path, FALSE) >>] >>
    /\ include_root_name \in BOOLEAN
    /\ include_ignored = FALSE
    /\ smart_case \in BOOLEAN
    /\ max_results = 1
    /\ cpus = 1
    /\ Started

SpecSep == InitSep /\ [][Next]_vars

\* the columns of the first query character that made the recursive call:
\* the call for column j stores the cell (1, j + 1) of score_matrix
CalledColumns(w) ==
    { j \in 0..worker[w].last_positions[1] :
          worker[w].score_matrix[Len(LastLP(w)) + j + 2] # None }

\* the case penalty of query character i (0-based) at column j: applied
\* at a '/' that is not the query character, whatever smart_case is
SlashPenalty(c, i, j) ==
    IF CurrAt(c, j) = "/" /\ c.query[i + 1] # "/" THEN CasePenalty
    ELSE IF c.smart_case /\ c.query[i + 1] # CurrAt(c, j) THEN CasePenalty
    ELSE One

RECURSIVE PenalisedProduct(_, _, _)
\* the product along the alignment f of the multipliers of the query
\* characters 0..n-1, with SlashPenalty for the case penalty
PenalisedProduct(c, f, n) ==
    IF n = 0 THEN One
    ELSE LET i == n - 1
             start == IF i = 0 THEN 0 ELSE f[i] + 1
             scaled == Mul(BoundaryScore(c, i, start, f[n]), SlashPenalty(c, i, f[n]))
         IN  Mul(PenalisedProduct(c, f, i),
                 IF i = 0
                 THEN Div(scaled, FromNat(PathLen(c) - LastSlashAt(c, f[1])))
                 ELSE scaled)

\* C27: column j is accepted for a query character exactly when the
\* lowercase query character is the lowercase path character at j, or the
\* path character is '/' or '\' and the query character is '_', or the
\* query character is '\'; an accepted '/' that is not the original query
\* character takes the 0.001 penalty, also with smart_case = false.
C27_AcceptanceAndSlashPenalty ==
    \A w \in Workers :
        (last[w].outcome = "scored" /\ Positive(last[w].score)
             /\ last[w].min_score = Zero) =>
            \A c \in { LastContext(w) } :
                /\ \A i \in 1..Len(query) :
                       LET q == c.query_cased[i]
                           p == LastLP(w)[worker[w].match_positions[i] + 1]
                       IN  \/ q = p
                           \/ (p \in { "/", "\\" } /\ q = "_")
                           \/ q = "\\"
                /\ Len(query) >= 2 =>
                       CalledColumns(w) =
                           { j \in 0..worker[w].last_positions[1] :
                                 LET q == c.query_cased[1]
                                     p == LastLP(w)[j + 1]
                                 IN  \/ q = p
                                     \/ (p \in { "/", "\\" } /\ q = "_")
                                     \/ q = "\\" }
                /\ last[w].score =
                       Mul(LenAsScore(query),
                           PenalisedProduct(c, worker[w].match_positions, Len(query)))
                /\ \A i \in 0..(Len(query) - 1) : \A j \in 0..worker[w].last_positions[i + 1] :
                       (ColumnAccepted(c.query_cased[i + 1], PathCharAt(c, j))
                            /\ CurrAt(c, j) = "/" /\ query[i + 1] # "/") =>
                           \A path_idx \in 0..j :
                               CharScore(c, i, path_idx, j) =
                                   Mul(BoundaryScore(c, i, path_idx, j), CasePenalty)

\* a result was pushed for a query of two characters, one of them '_' or
\* '\' with an accepted '/' among its columns, with smart_case = false
C27_Witness ==
    \E w \in Workers :
        /\ last[w].outcome = "scored" /\ Positive(last[w].score)
        /\ ~smart_case
        /\ Len(query) = 2
        /\ \E i \in 1..2, j \in 0..(Len(LastLP(w)) - 1) :
               /\ query[i] \in { "_", "\\" }
               /\ j <= worker[w].last_positions[i]
               /\ LastLP(w)[j + 1] = "/"
               /\ i = 1 => j \in CalledColumns(w)

(***************************************************************************)
(* What is pushed while min_score = 0                                      *)
(***************************************************************************)
RECURSIVE IsSubsequence(_, _, _, _)
\* whether the characters i, i+1, ... of q occur in that order among the
\* characters j, j+1, ... of s (1-based)
IsSubsequence(q, s, i, j) ==
    IF i > Len(q) THEN TRUE
    ELSE IF j > Len(s) THEN FALSE
    ELSE IF q[i] = s[j] THEN IsSubsequence(q, s, i + 1, j + 1)
    ELSE IsSubsequence(q, s, i, j + 1)

\* the candidate of worker w's last iteration got a score > 0 and is in the
\* worker's heap
PushedPositive(w) ==
    /\ Positive(last[w].score)
    /\ \E k \in 1..Len(worker[w].results) :
           /\ worker[w].results[k].path = LastPathEntry(w).path
           /\ worker[w].results[k].tree_id = LastSnapshot(w).id
           /\ worker[w].results[k].score = last[w].score

\* every value the recursion stored in score_matrix lies in (0, 1]
CellsInUnitInterval(w) ==
    \A k \in 1..Len(worker[w].score_matrix) :
        worker[w].score_matrix[k] # None =>
            /\ Positive(worker[w].score_matrix[k])
            /\ Leq(worker[w].score_matrix[k], One)

\* every entry of the heap is a candidate whose CharBag holds the query's
\* and whose lowercase prefix ++ path has the lowercase query as a
\* subsequence
HeapOnlyMatches(w) ==
    \A k \in 1..Len(worker[w].results) :
        LET m == worker[w].results[k]
        IN  /\ CharBagFrom(to_lowercase(query))
                   \subseteq CharBagFrom(to_lowercase(m.path))
            /\ IsSubsequence(to_lowercase(query),
                   to_lowercase(Prefix(SnapshotOf(m), include_root_name))
                       \o to_lowercase(m.path), 1, 1)

\* the candidate of the last iteration passed the CharBag test and the flag;
\* it reached score_match exactly if the query is a subsequence
ScoredIffSubsequence(w) ==
    last[w].outcome \in { "rejected", "scored" } =>
        (last[w].outcome = "scored"
             <=> IsSubsequence(to_lowercase(query), LastLP(w), 1, 1))

\* C28 as stated: with min_score = 0 every candidate that passes the
\* CharBag test and find_last_positions gets a score > 0 and is pushed, the
\* heap holds exactly the candidates with the query as a subsequence, and
\* every stored cell of score_matrix lies in (0, 1].
C28_EveryAcceptedCandidatePushed ==
    \A w \in Workers :
        /\ HeapOnlyMatches(w)
        /\ ScoredIffSubsequence(w)
        /\ (last[w].outcome = "scored" /\ last[w].min_score = Zero) =>
               /\ PushedPositive(w)
               /\ CellsInUnitInterval(w)

\* C28 amended: the same for a non-empty query; with the empty query the
\* score is 1 * 0 = 0 and nothing is pushed.
C28_NonEmptyQueryPushed ==
    \A w \in Workers :
        /\ HeapOnlyMatches(w)
        /\ ScoredIffSubsequence(w)
        /\ (last[w].outcome = "scored" /\ last[w].min_score = Zero
                /\ query # << >>) =>
               /\ PushedPositive(w)
               /\ CellsInUnitInterval(w)

\* a candidate was scored with min_score = 0 for a query of several
\* characters after the worker had rejected or skipped another
C28_Witness ==
    \E w \in Workers :
        /\ last[w].outcome = "scored" /\ last[w].min_score = Zero
        /\ Len(query) >= 2
        /\ Len(worker[w].results) = 1
        /\ last[w].entry >= 1

(***************************************************************************)
(* Indices stay in range                                                   *)
(***************************************************************************)
RECURSIVE ReachableCalls(_, _, _)
\* the calls recursive_score_match(query_idx, path_idx) that the call
\* (query_idx, path_idx) can lead to, itself included: one call
\* (query_idx + 1, j + 1) for every accepted column j of the loop; pruning,
\* the memo table and the break at score 1 only leave calls out
ReachableCalls(c, query_idx, path_idx) ==
    { << query_idx, path_idx >> } \cup
        IF query_idx >= Len(c.query) THEN {}
        ELSE UNION { ReachableCalls(c, query_idx + 1, j + 1) :
                       j \in { j \in path_idx..Min(c.last_positions[query_idx + 1],
                                                   PathLen(c) - 1) :
                                   ColumnAccepted(c.query_cased[query_idx + 1],
                                                  PathCharAt(c, j)) } }

\* the index score_match reads in best_position_matrix for query
\* character i (0-based), given the positions it has reconstructed
ReconstructionIndex(c, match_positions, i) ==
    i * PathLen(c) + (IF i = 0 THEN 0 ELSE match_positions[i] + 1)

\* C29: scoring never indexes out of range: every call
\* recursive_score_match(query_idx, path_idx) with query_idx < |query| has
\* path_idx <= last_positions[query_idx] < |prefix| + |path|, every access
\* to the matrices (the reads of the position reconstruction included), to
\* prefix and to path is within bounds, and the divisor
\* |prefix| + |path| - last_slash is >= 1.
C29_ScoringStaysInRange ==
    \A w \in Workers :
        /\ wpc[w] # "panicked"
        /\ last[w].outcome = "scored" =>
               \A c \in { LastContext(w) } :
                   /\ Len(worker[w].score_matrix) = Len(query) * Len(LastLP(w))
                   /\ Len(worker[w].best_position_matrix) = Len(query) * Len(LastLP(w))
                   /\ \A i \in 1..Len(query) :
                          c.last_positions[i] < Len(LastLP(w))
                   /\ \A call \in ReachableCalls(c, 0, 0) :
                          call[1] < Len(query) =>
                              /\ call[2] <= c.last_positions[call[1] + 1]
                              /\ call[1] * Len(LastLP(w)) + call[2]
                                     < Len(worker[w].score_matrix)
                   /\ \A j \in 0..(Len(LastLP(w)) - 1) :
                          Len(LastLP(w)) - LastSlashAt(c, j) >= 1
                   /\ Positive(last[w].score) =>
                          \A i \in 0..(Len(query) - 1) :
                              ReconstructionIndex(c, worker[w].match_positions, i)
                                  < Len(worker[w].best_position_matrix)

\* a candidate was scored under a positive min_score whose recursion
\* reached the last cell of score_matrix
C29_Witness ==
    \E w \in Workers :
        /\ last[w].outcome = "scored"
        /\ Positive(last[w].min_score)
        /\ Len(query) >= 2
        /\ << Len(query) - 1, Len(LastLP(w)) - 1 >>
               \in ReachableCalls(LastContext(w), 0, 0)

(***************************************************************************)
(* WorktreeIndex::index_entries (crates/semantic_index/worktree_index.rs)  *)
(*                                                                         *)
(* WorktreeIndex::new makes an unbounded channel, subscribes to the        *)
(* worktree (the callback sends every UpdatedEntries batch) and spawns     *)
(* index_entries. The model owns the subscription, and with it the sender, *)
(* and the task. Batches are numbered 1, 2, ... in the order the worktree  *)
(* emits them; pass 0 is the initial pass over the entries changed on      *)
(* disk. A pass is the try_join of the embedding and the summary index.    *)
(***************************************************************************)
\* the most UpdatedEntries events the worktree emits
MaxBatches == 3

\* the state of a match_paths call
mvars ==
    << args, cancel_flag, pc, wpc, tree, tree_start, next_entry, entry_end,
       worker, last, results >>

\* no call of match_paths is under way
NoMatchPaths ==
    /\ query = << >>
    /\ snapshots = << >>
    /\ include_root_name = FALSE
    /\ include_ignored = FALSE
    /\ smart_case = FALSE
    /\ max_results = 0
    /\ cpus = 1
    /\ cancel_flag = FALSE
    /\ pc = "returned"
    /\ wpc = [w \in Workers |-> "done"]
    /\ tree = [w \in Workers |-> 1]
    /\ tree_start = [w \in Workers |-> 0]
    /\ next_entry = [w \in Workers |-> 0]
    /\ entry_end = [w \in Workers |-> 0]
    /\ worker = [w \in Workers |-> InitialLocals(query)]
    /\ last = [w \in Workers |-> NoEntry]
    /\ results = << >>

\* WorktreeIndex::new has returned: the channel is empty, the subscription
\* is in place, index_entries is spawned
InitIndex ==
    /\ NoMatchPaths
    /\ index_alive = TRUE
    /\ updated_entries = << >>
    /\ index_pc = "spawned"
    /\ passes = {}
    /\ handled = << >>
    /\ sent = 0
    /\ logged = 0

\* the `?` operator in the place of log_err: an error ends index_entries
try_operator(ok) == IF ok THEN "recv" ELSE "ended"

\* index.await.log_err(): whatever the pass returned, the task goes on to
\* updated_entries.recv()
log_err(ok) == "recv"

\* the subscription callback on a worktree event: an UpdatedEntries batch is
\* sent to the channel (try_send fails only once the receiver is dropped),
\* any other event is ignored
OnWorktreeEvent ==
    /\ index_alive
    /\ \E is_update \in BOOLEAN :
           IF is_update
           THEN /\ sent < MaxBatches
                /\ sent' = sent + 1
                /\ updated_entries' =
                       IF index_pc = "ended" THEN updated_entries
                       ELSE Append(updated_entries, sent + 1)
                /\ UNCHANGED << index_alive, index_pc, passes, handled, logged >>
           ELSE UNCHANGED ivars
    /\ UNCHANGED mvars

\* this.update(..)? for the initial pass: the try_join of the two
\* index_entries_changed_on_disk, or the error of a released model
StartInitialPass ==
    /\ index_pc = "spawned"
    /\ IF index_alive
       THEN /\ passes' = passes \cup { 0 }
            /\ index_pc' = "initial"
       ELSE /\ index_pc' = "ended"
            /\ UNCHANGED passes
    /\ UNCHANGED << index_alive, updated_entries, handled, sent, logged, mvars >>

\* the pass under way returns ok or an error, which log_err logs
PassReturns(batch, at) ==
    /\ index_pc = at
    /\ batch \in passes
    /\ \E ok \in BOOLEAN :
           /\ passes' = passes \ { batch }
           /\ handled' = Append(handled, [batch |-> batch, ok |-> ok])
           /\ logged' = IF ok THEN logged ELSE logged + 1
           /\ index_pc' = log_err(ok)
    /\ UNCHANGED << index_alive, updated_entries, sent, mvars >>

\* index.await.log_err() of the initial pass
InitialPassReturns == PassReturns(0, "initial")

\* updated_entries.recv().await: the next batch and this.update(..)? for
\* it, or the end of the loop on a closed and empty channel
RecvBatch ==
    /\ index_pc = "recv"
    /\ IF updated_entries # << >>
       THEN /\ updated_entries' = Tail(updated_entries)
            /\ IF index_alive
               THEN /\ passes' = passes \cup { Head(updated_entries) }
                    /\ index_pc' = "pass"
               ELSE /\ index_pc' = "ended"
                    /\ UNCHANGED passes
       ELSE /\ ~index_alive
            /\ index_pc' = "ended"
            /\ UNCHANGED << updated_entries, passes >>
    /\ UNCHANGED << index_alive, handled, sent, logged, mvars >>

\* index.await.log_err() of the pass of a batch
BatchPassReturns == \E batch \in 1..MaxBatches : PassReturns(batch, "pass")

\* the last handle of the model is dropped: the subscription and its sender
\* go, which closes the channel; the task is dropped with the model, and is
\* either cancelled where it waits or runs on until its next this.update
ReleaseIndex ==
    /\ index_alive
    /\ index_alive' = FALSE
    /\ \E cancelled \in BOOLEAN :
           IF cancelled
           THEN /\ index_pc' = "ended"
                /\ passes' = {}
           ELSE UNCHANGED << index_pc, passes >>
    /\ UNCHANGED << updated_entries, handled, sent, logged, mvars >>

\* the steps of the index_entries task
IndexTask ==
    \/ StartInitialPass
    \/ InitialPassReturns
    \/ RecvBatch
    \/ BatchPassReturns

NextIndex ==
    \/ OnWorktreeEvent
    \/ StartInitialPass
    \/ InitialPassReturns
    \/ RecvBatch
    \/ BatchPassReturns
    \/ ReleaseIndex

\* the executor keeps polling the task and every pass returns
SpecIndex == InitIndex /\ [][NextIndex]_vars /\ WF_vars(IndexTask)

\* batch b has been handled
Handled(b) == \E i \in 1..Len(handled) : handled[i].batch = b

\* batch b waits in the channel
Queued(b) == \E i \in 1..Len(updated_entries) : updated_entries[i] = b

\* C30: index_entries finishes the initial pass before it handles any
\* batch, handles the batches one at a time in the order they were sent, only
\* logs a pass that fails and still handles the next batch, and ends only
\* when the channel is closed or the WorktreeIndex model is gone.
C30_IndexEntriesInOrder ==
    /\ [](\A i \in 1..Len(handled) : handled[i].batch = i - 1)
    /\ [](passes \subseteq { Len(handled) } /\ Cardinality(passes) <= 1)
    /\ [](logged = Cardinality({ i \in 1..Len(handled) : ~handled[i].ok }))
    /\ [][(index_pc \in { "initial", "pass" } /\ index_pc' # index_pc
               /\ index_alive')
              => (index_pc' = "recv" /\ Len(handled') = Len(handled) + 1)]_vars
    /\ [](index_pc = "ended" => ~index_alive)
    /\ \A b \in 1..MaxBatches : Queued(b) ~> (Handled(b) \/ ~index_alive)

\* the pass of batch 1 failed and the pass of batch 2 has been made all the
\* same, while batch 3 waits in the channel of a live model
C30_Witness ==
    /\ index_alive
    /\ Len(handled) = 3
    /\ ~handled[2].ok
    /\ handled[3].batch = 2
    /\ updated_entries = << 3 >>
    /\ index_pc = "recv"

=============================================================================
